---- MODULE Spec2Model ----
(***************************************************************************)
(* A model of objects/match.py: the Slot and Match classes of an osu!      *)
(* multiplayer match, with the two broadcast sinks (the match's own chat   *)
(* channel and the #lobby channel) the match enqueues to.                  *)
(*                                                                         *)
(* A player object is represented by its id (1..MaxPlayer); None is 0.     *)
(* Every method call is one atomic step (the match is mutated by one       *)
(* handler at a time).  The variables op, result, ret and sent record the  *)
(* last call: its name, how it ended, what it returned and what it         *)
(* enqueued, in order.                                                     *)
(***************************************************************************)
EXTENDS Integers, Sequences, FiniteSets, TLC

\* ---------------------------------------------------------------- bounds
\* number of slots of a match (16 in Match.__init__)
NumSlots == 2
\* number of distinct players
MaxPlayer == 2

\* ------------------------------------------------------------- constants
None == 0

\* SlotStatus
open == 1
locked == 2
not_ready == 4
ready == 8
no_map == 16
playing == 32
complete == 64
quit == 128
has_player == not_ready + ready + no_map + playing + complete

\* the eight base flags, and every member of the enumeration
BaseStatus == {open, locked, not_ready, ready, no_map, playing, complete, quit}
SlotStatus == BaseStatus \cup {has_player}

\* Teams
neutral == 0
blue == 1
red == 2

\* Mods.NOMOD
NOMOD == 0

Players == 1..MaxPlayer
SlotIds == 0..(NumSlots - 1)

\* a & b on non-negative integers
RECURSIVE BitAnd(_, _)
BitAnd(a, b) ==
    IF a = 0 \/ b = 0 THEN 0
    ELSE (a % 2) * (b % 2) + 2 * BitAnd(a \div 2, b \div 2)

VARIABLES
    slots,        \* Match.slots: SlotIds -> Slot
    in_progress,  \* Match.in_progress
    chat,         \* Match.chat: [set, players]; set = FALSE is None
    lobby,        \* glob.channels['#lobby']: [set, players]
    host,         \* Match.host
    refs_,        \* Match._refs
    cfg,          \* the fields Match.copy overwrites
    ident,        \* Match.id, passwd, type and seed
    op,           \* name of the last call
    result,       \* "ok", "raised" or "halted"
    ret,          \* value the last call returned (or its local of interest)
    sent          \* what the last call enqueued, in order

vars == <<slots, in_progress, chat, lobby, host, refs_, cfg, ident, op, result, ret, sent>>

\* ------------------------------------------------------------------ Slot
\* Slot.__init__
NewSlot ==
    [player |-> None, status |-> open, team |-> neutral,
     mods |-> NOMOD, loaded |-> FALSE, skipped |-> FALSE]

\* copy taking every attribute of s, loaded and skipped too
SlotCopyAll(self, s) == s

\* Slot.copy
SlotCopyOf(self, s) ==
    [self EXCEPT !.player = s.player, !.status = s.status,
                 !.team = s.team, !.mods = s.mods]

\* reset leaving loaded and skipped as they are
SlotResetKeepFlags(self) ==
    [self EXCEPT !.player = None, !.status = open, !.team = neutral,
                 !.mods = NOMOD]

\* Slot.reset
SlotResetOf(self) ==
    [self EXCEPT !.player = None, !.status = open, !.team = neutral,
                 !.mods = NOMOD, !.loaded = FALSE, !.skipped = FALSE]

\* the slots a caller may pass to Slot.copy: a newly built Slot whose
\* player and status the caller has filled in consistently
Templates ==
    { [NewSlot EXCEPT !.status = st] : st \in {open, locked, quit} } \cup
    { [NewSlot EXCEPT !.player = p, !.status = st] :
          p \in Players, st \in {not_ready, ready, no_map, playing, complete} }

\* the templates of a player joining, and of an empty slot
SeatTemplates ==
    { NewSlot } \cup
    { [NewSlot EXCEPT !.player = p, !.status = st] :
          p \in Players, st \in {not_ready, no_map} }

\* templates with a team, mods and the round flags filled in
RichTemplates ==
    { NewSlot,
      [player |-> 1, status |-> ready, team |-> blue,
       mods |-> 1, loaded |-> TRUE, skipped |-> TRUE],
      [player |-> MaxPlayer, status |-> no_map, team |-> red,
       mods |-> 2, loaded |-> FALSE, skipped |-> FALSE],
      [player |-> 1, status |-> playing, team |-> neutral,
       mods |-> 1, loaded |-> TRUE, skipped |-> FALSE] }

\* ----------------------------------------------------------------- Match
\* the configuration of a newly built match, and of the other matches
\* Match.copy is given (their in_progress shown to tell them apart)
NewCfg ==
    [bmap |-> 0, freemods |-> FALSE, mode |-> 0, team_type |-> 0,
     match_scoring |-> 0, mods |-> NOMOD, name |-> 0]

\* id, passwd, type (MatchTypes.standard) and seed of a newly built match
NewIdent == [id |-> 0, passwd |-> "", type |-> 0, seed |-> 0]

OtherMatches ==
    { [cfg |-> NewCfg, in_progress |-> FALSE, ident |-> NewIdent] } \cup
    { [cfg |-> [bmap |-> 1, freemods |-> TRUE, mode |-> 1, team_type |-> 2,
                match_scoring |-> 3, mods |-> 1, name |-> 1],
       in_progress |-> ip,
       ident |-> [id |-> 1, passwd |-> "pw", type |-> 1, seed |-> 7]] :
          ip \in BOOLEAN }

NoChannel == [set |-> FALSE, players |-> {}]

\* a channel every player has joined, and #lobby with nobody in it
FullChannel == [set |-> TRUE, players |-> Players]
EmptyLobby == [set |-> TRUE, players |-> {}]

\* Match.__init__
InitMatch ==
    /\ slots = [i \in SlotIds |-> NewSlot]
    /\ in_progress = FALSE
    /\ chat = NoChannel
    /\ host = None
    /\ refs_ = {}
    /\ cfg = NewCfg
    /\ ident = NewIdent
    /\ op = "init"
    /\ result = "ok"
    /\ ret = None
    /\ sent = <<>>

\* a new match while nobody is in #lobby
Init == InitMatch /\ lobby = EmptyLobby

\* a new match; #lobby is missing, empty or joined by every player
InitBroadcast == InitMatch /\ lobby \in {NoChannel, EmptyLobby, FullChannel}

\* what get_free, get_slot_id, ... return when the scan finds nothing
Absent == -1

\* ------------------------------------------------------------ collaborators
\* packets.updateMatch(m, send_pw): the encoded snapshot of the match
updateMatch(sl, ip, send_pw) ==
    [kind |-> "updateMatch", send_pw |-> send_pw, in_progress |-> ip,
     statuses |-> [i \in SlotIds |-> sl[i].status]]

\* packets.matchStart(m): the start signal
matchStart(sl, ip) ==
    [kind |-> "matchStart", in_progress |-> ip,
     statuses |-> [i \in SlotIds |-> sl[i].status]]

\* the pre-encoded payloads a caller hands to Match.enqueue
RawPayloads == { [kind |-> "raw"] }

\* the immune lists a caller hands to Match.enqueue: nobody, or one player
ImmuneLists == { <<>>, <<1>> }

Range(f) == { f[i] : i \in DOMAIN f }

\* Channel.enqueue(data, immune) on channel c: one queued emission
ChanEnqueue(c, data, immune) == [chan |-> c, data |-> data, immune |-> immune]

\* the players an emission is delivered to
Receivers(e) ==
    LET c == IF e.chan = "chat" THEN chat ELSE lobby
    IN  { p \in c.players : p \notin Range(e.immune) }

\* ------------------------------------------------------- Match: queries
\* the authority set as the stored referees only
refsStored == refs_

\* Match.refs
refs == {host} \cup refs_

\* Match.get_free
RECURSIVE get_free_from(_, _)
get_free_from(sl, idx) ==
    IF idx = NumSlots THEN Absent
    ELSE IF sl[idx].status = open THEN idx
    ELSE get_free_from(sl, idx + 1)

\* the first slot without a player, whatever its status
RECURSIVE get_free_empty_from(_, _)
get_free_empty_from(sl, idx) ==
    IF idx = NumSlots THEN Absent
    ELSE IF sl[idx].player = None THEN idx
    ELSE get_free_empty_from(sl, idx + 1)

get_free_empty(sl) == get_free_empty_from(sl, 0)

get_free(sl) == get_free_from(sl, 0)

\* Match.__contains__
contains(sl, p) == p \in { sl[i].player : i \in SlotIds }

\* Match.get_slot; the slot returned is named by its place in slots
RECURSIVE get_slot_from(_, _, _)
get_slot_from(sl, p, idx) ==
    IF idx = NumSlots THEN Absent
    ELSE IF p = sl[idx].player THEN idx
    ELSE get_slot_from(sl, p, idx + 1)

get_slot(sl, p) == get_slot_from(sl, p, 0)

\* the scan keeping the last slot of the player instead of the first
RECURSIVE get_slot_id_last_from(_, _, _, _)
get_slot_id_last_from(sl, p, idx, found) ==
    IF idx = NumSlots THEN found
    ELSE get_slot_id_last_from(sl, p, idx + 1,
                               IF p = sl[idx].player THEN idx ELSE found)

get_slot_id_last(sl, p) == get_slot_id_last_from(sl, p, 0, Absent)

\* Match.get_slot_id
RECURSIVE get_slot_id_from(_, _, _)
get_slot_id_from(sl, p, idx) ==
    IF idx = NumSlots THEN Absent
    ELSE IF p = sl[idx].player THEN idx
    ELSE get_slot_id_from(sl, p, idx + 1)

get_slot_id(sl, p) == get_slot_id_from(sl, p, 0)

\* Match.get_host_slot: s.player.id raises for a slot with a has_player
\* status and no player, self.host.id raises while host is None
RECURSIVE get_host_slot_from(_, _, _)
get_host_slot_from(sl, h, idx) ==
    IF idx = NumSlots THEN [raised |-> FALSE, slot |-> Absent]
    ELSE IF BitAnd(sl[idx].status, has_player) # 0
    THEN IF sl[idx].player = None \/ h = None
         THEN [raised |-> TRUE, slot |-> Absent]
         ELSE IF sl[idx].player = h
              THEN [raised |-> FALSE, slot |-> idx]
              ELSE get_host_slot_from(sl, h, idx + 1)
    ELSE get_host_slot_from(sl, h, idx + 1)

get_host_slot(sl, h) == get_host_slot_from(sl, h, 0)

\* ----------------------------------------------------- Match: broadcast
\* what is left of a call that reaches breakpoint() with chat unset: the
\* debugger keeps the process stopped, or the call goes on to
\* self.chat.enqueue and raises
FatalResults == {"halted", "raised"}

\* enqueue handing the immune list to #lobby as well
EnqueueOutImmune(data, lobbyFlag, immune) ==
    <<ChanEnqueue("chat", data, immune)>> \o
    (IF lobbyFlag /\ lobby.set /\ lobby.players # {}
     THEN <<ChanEnqueue("lobby", data, immune)>>
     ELSE <<>>)

\* Match.enqueue, with chat set: the emissions, in order
EnqueueOut(data, lobbyFlag, immune) ==
    <<ChanEnqueue("chat", data, immune)>> \o
    (IF lobbyFlag /\ lobby.set /\ lobby.players # {}
     THEN <<ChanEnqueue("lobby", data, <<>>)>>
     ELSE <<>>)

\* enqueue_state sending the one encoding, password included, to both
EnqueueStateOutLeak(sl, ip, lobbyFlag) ==
    <<ChanEnqueue("chat", updateMatch(sl, ip, TRUE), <<>>)>> \o
    (IF lobbyFlag /\ lobby.set /\ lobby.players # {}
     THEN <<ChanEnqueue("lobby", updateMatch(sl, ip, TRUE), <<>>)>>
     ELSE <<>>)

\* Match.enqueue_state, with chat set: the emissions, in order
EnqueueStateOut(sl, ip, lobbyFlag) ==
    <<ChanEnqueue("chat", updateMatch(sl, ip, TRUE), <<>>)>> \o
    (IF lobbyFlag /\ lobby.set /\ lobby.players # {}
     THEN <<ChanEnqueue("lobby", updateMatch(sl, ip, FALSE), <<>>)>>
     ELSE <<>>)

\* ------------------------------------------------- Match: state machine
\* unready_players adding the flag with |= instead of assigning it
UnreadySlotsOr(sl, expected) ==
    [i \in SlotIds |->
        IF sl[i].status = expected
        THEN [sl[i] EXCEPT !.status =
                 IF BitAnd(sl[i].status, not_ready) # 0
                 THEN sl[i].status ELSE sl[i].status + not_ready]
        ELSE sl[i]]

\* unready_players testing the status with & instead of ==
UnreadySlotsMask(sl, expected) ==
    [i \in SlotIds |->
        IF BitAnd(sl[i].status, expected) # 0
        THEN [sl[i] EXCEPT !.status = not_ready]
        ELSE sl[i]]

\* Match.unready_players
UnreadySlots(sl, expected) ==
    [i \in SlotIds |->
        IF sl[i].status = expected
        THEN [sl[i] EXCEPT !.status = not_ready]
        ELSE sl[i]]

\* the loop of start setting every slot with a player to playing
RECURSIVE StartLoopAll(_, _, _)
StartLoopAll(sl, i, nm) ==
    IF i = NumSlots THEN [slots |-> sl, no_map |-> nm, raised |-> FALSE]
    ELSE IF BitAnd(sl[i].status, has_player) # 0
    THEN IF sl[i].status # no_map
         THEN StartLoopAll([sl EXCEPT ![i].status = playing], i + 1, nm)
         ELSE IF sl[i].player = None
              THEN [slots |-> sl, no_map |-> nm, raised |-> TRUE]
              ELSE StartLoopAll([sl EXCEPT ![i].status = playing], i + 1,
                                Append(nm, sl[i].player))
    ELSE StartLoopAll(sl, i + 1, nm)

\* the loop of Match.start from slot i on; nm is the no_map list so far.
\* s.player.id raises when a no_map slot has no player.
RECURSIVE StartLoop(_, _, _)
StartLoop(sl, i, nm) ==
    IF i = NumSlots THEN [slots |-> sl, no_map |-> nm, raised |-> FALSE]
    ELSE IF BitAnd(sl[i].status, has_player) # 0
    THEN IF sl[i].status # no_map
         THEN StartLoop([sl EXCEPT ![i].status = playing], i + 1, nm)
         ELSE IF sl[i].player = None
              THEN [slots |-> sl, no_map |-> nm, raised |-> TRUE]
              ELSE StartLoop(sl, i + 1, Append(nm, sl[i].player))
    ELSE StartLoop(sl, i + 1, nm)

\* start broadcasting before it sets in_progress
StartBroadcastEarly(r, ip) ==
    [in_progress |-> TRUE,
     sent |-> EnqueueOut(matchStart(r.slots, ip), TRUE, r.no_map) \o
              EnqueueStateOut(r.slots, ip, TRUE)]

\* Match.start with chat set, after the loop r: in_progress is set, then
\* the start signal and the state are built and enqueued
StartBroadcast(r, ip) ==
    LET ip1 == TRUE
    IN  [in_progress |-> ip1,
         sent |-> EnqueueOut(matchStart(r.slots, ip1), TRUE, r.no_map) \o
                  EnqueueStateOut(r.slots, ip1, TRUE)]

\* ---------------------------------------------------------------- actions
Running == result # "halted"

\* the caller attaches a channel to the match (m.chat = ...)
SetChat ==
    /\ Running
    /\ chat' = FullChannel
    /\ op' = "set_chat" /\ result' = "ok" /\ ret' = None /\ sent' = <<>>
    /\ UNCHANGED <<slots, in_progress, lobby, host, refs_, cfg, ident>>

\* slots[i].copy(t) for a t of T
SlotCopyFrom(T) ==
    /\ Running
    /\ \E i \in SlotIds, t \in T :
           slots' = [slots EXCEPT ![i] = SlotCopyOf(slots[i], t)]
    /\ op' = "slot_copy" /\ result' = "ok" /\ ret' = None /\ sent' = <<>>
    /\ UNCHANGED <<in_progress, chat, lobby, host, refs_, cfg, ident>>

SlotCopy == SlotCopyFrom(Templates)

\* a player takes a slot (not ready, or without the map), or a slot is
\* overwritten with an empty one
Seat == SlotCopyFrom(SeatTemplates)

\* slots[i].reset()
SlotReset ==
    /\ Running
    /\ \E i \in SlotIds : slots' = [slots EXCEPT ![i] = SlotResetOf(slots[i])]
    /\ op' = "slot_reset" /\ result' = "ok" /\ ret' = None /\ sent' = <<>>
    /\ UNCHANGED <<in_progress, chat, lobby, host, refs_, cfg, ident>>

\* copy taking every field of m, in_progress too
MatchCopyFull ==
    /\ Running
    /\ \E m \in OtherMatches : cfg' = m.cfg /\ in_progress' = m.in_progress
    /\ op' = "copy" /\ result' = "ok" /\ ret' = None /\ sent' = <<>>
    /\ UNCHANGED <<slots, chat, lobby, host, refs_, ident>>

\* copy taking the password of m along with its configuration
MatchCopyPasswd ==
    /\ Running
    /\ \E m \in OtherMatches :
           cfg' = m.cfg /\ ident' = [ident EXCEPT !.passwd = m.ident.passwd]
    /\ op' = "copy" /\ result' = "ok" /\ ret' = None /\ sent' = <<>>
    /\ UNCHANGED <<slots, in_progress, chat, lobby, host, refs_>>

\* Match.copy(m)
MatchCopy ==
    /\ Running
    /\ \E m \in OtherMatches : cfg' = m.cfg
    /\ op' = "copy" /\ result' = "ok" /\ ret' = None /\ sent' = <<>>
    /\ UNCHANGED <<slots, in_progress, chat, lobby, host, refs_, ident>>

\* Match.unready_players(expected)
UnreadyPlayers ==
    /\ Running
    /\ \E expected \in SlotStatus : slots' = UnreadySlots(slots, expected)
    /\ op' = "unready_players" /\ result' = "ok" /\ ret' = None /\ sent' = <<>>
    /\ UNCHANGED <<in_progress, chat, lobby, host, refs_, cfg, ident>>

\* enqueue returning quietly when there is no channel
EnqueueQuiet ==
    /\ Running
    /\ \E data \in RawPayloads, lobbyFlag \in BOOLEAN, immune \in ImmuneLists :
           /\ ret' = [data |-> data, lobby |-> lobbyFlag, immune |-> immune]
           /\ IF chat.set
              THEN result' = "ok" /\ sent' = EnqueueOut(data, lobbyFlag, immune)
              ELSE result' = "ok" /\ sent' = <<>>
    /\ op' = "enqueue"
    /\ UNCHANGED <<slots, in_progress, chat, lobby, host, refs_, cfg, ident>>

\* Match.enqueue(data, lobby, immune); ret is its arguments
Enqueue ==
    /\ Running
    /\ \E data \in RawPayloads, lobbyFlag \in BOOLEAN, immune \in ImmuneLists :
           /\ ret' = [data |-> data, lobby |-> lobbyFlag, immune |-> immune]
           /\ IF chat.set
              THEN result' = "ok" /\ sent' = EnqueueOut(data, lobbyFlag, immune)
              ELSE result' \in FatalResults /\ sent' = <<>>
    /\ op' = "enqueue"
    /\ UNCHANGED <<slots, in_progress, chat, lobby, host, refs_, cfg, ident>>

\* Match.enqueue_state(lobby)
EnqueueState ==
    /\ Running
    /\ \E lobbyFlag \in BOOLEAN :
           IF chat.set
           THEN result' = "ok" /\ sent' = EnqueueStateOut(slots, in_progress, lobbyFlag)
           ELSE result' \in FatalResults /\ sent' = <<>>
    /\ op' = "enqueue_state" /\ ret' = None
    /\ UNCHANGED <<slots, in_progress, chat, lobby, host, refs_, cfg, ident>>

\* Match.start(); ret is its no_map list
Start ==
    /\ Running
    /\ LET r == StartLoop(slots, 0, <<>>)
       IN  /\ slots' = r.slots
           /\ ret' = r.no_map
           /\ IF r.raised
              THEN in_progress' = in_progress /\ result' = "raised" /\ sent' = <<>>
              ELSE IF chat.set
              THEN LET b == StartBroadcast(r, in_progress)
                   IN  in_progress' = b.in_progress /\ result' = "ok" /\ sent' = b.sent
              ELSE in_progress' = TRUE /\ result' \in FatalResults /\ sent' = <<>>
    /\ op' = "start"
    /\ UNCHANGED <<chat, lobby, host, refs_, cfg, ident>>

\* Match.get_free()
GetFree ==
    /\ Running
    /\ ret' = get_free(slots)
    /\ op' = "get_free" /\ result' = "ok" /\ sent' = <<>>
    /\ UNCHANGED <<slots, in_progress, chat, lobby, host, refs_, cfg, ident>>

\* the slots and the state machine
Next ==
    \/ SetChat
    \/ SlotCopy
    \/ SlotReset
    \/ UnreadyPlayers
    \/ Start
    \/ GetFree

Spec == Init /\ [][Next]_vars

\* the broadcasts, over the slots of joining players
NextBroadcast ==
    \/ SetChat
    \/ Seat
    \/ SlotReset
    \/ MatchCopy
    \/ UnreadyPlayers
    \/ Enqueue
    \/ EnqueueState
    \/ Start

SpecBroadcast == InitBroadcast /\ [][NextBroadcast]_vars

\* ------------------------------------------------------ referee authority
\* the caller names the host (m.host = p)
SetHost ==
    /\ Running
    /\ \E p \in Players : host' = p
    /\ op' = "set_host" /\ result' = "ok" /\ ret' = None /\ sent' = <<>>
    /\ UNCHANGED <<slots, in_progress, chat, lobby, refs_, cfg, ident>>

\* m._refs.add(p); ret is p
AddRef ==
    /\ Running
    /\ \E p \in Players : refs_' = refs_ \cup {p} /\ ret' = p
    /\ op' = "add_ref" /\ result' = "ok" /\ sent' = <<>>
    /\ UNCHANGED <<slots, in_progress, chat, lobby, host, cfg, ident>>

\* m._refs.remove(p); ret is p
RemoveRef ==
    /\ Running
    /\ \E p \in refs_ : refs_' = refs_ \ {p} /\ ret' = p
    /\ op' = "remove_ref" /\ result' = "ok" /\ sent' = <<>>
    /\ UNCHANGED <<slots, in_progress, chat, lobby, host, cfg, ident>>

\* m.refs
GetRefs ==
    /\ Running
    /\ ret' = refs
    /\ op' = "refs" /\ result' = "ok" /\ sent' = <<>>
    /\ UNCHANGED <<slots, in_progress, chat, lobby, host, refs_, cfg, ident>>

\* p in m; ret is p and the answer
Contains ==
    /\ Running
    /\ \E p \in Players : ret' = <<p, contains(slots, p)>>
    /\ op' = "contains" /\ result' = "ok" /\ sent' = <<>>
    /\ UNCHANGED <<slots, in_progress, chat, lobby, host, refs_, cfg, ident>>

\* Match.get_slot(p); ret is p and the slot
GetSlot ==
    /\ Running
    /\ \E p \in Players : ret' = <<p, get_slot(slots, p)>>
    /\ op' = "get_slot" /\ result' = "ok" /\ sent' = <<>>
    /\ UNCHANGED <<slots, in_progress, chat, lobby, host, refs_, cfg, ident>>

\* Match.get_slot_id(p); ret is p and the index
GetSlotId ==
    /\ Running
    /\ \E p \in Players : ret' = <<p, get_slot_id(slots, p)>>
    /\ op' = "get_slot_id" /\ result' = "ok" /\ sent' = <<>>
    /\ UNCHANGED <<slots, in_progress, chat, lobby, host, refs_, cfg, ident>>

\* Match.get_host_slot()
GetHostSlot ==
    /\ Running
    /\ LET r == get_host_slot(slots, host)
       IN  /\ ret' = r.slot
           /\ result' = IF r.raised THEN "raised" ELSE "ok"
    /\ op' = "get_host_slot" /\ sent' = <<>>
    /\ UNCHANGED <<slots, in_progress, chat, lobby, host, refs_, cfg, ident>>

NextAuth ==
    \/ SetHost
    \/ AddRef
    \/ RemoveRef
    \/ GetRefs
    \/ Seat
    \/ SlotReset
    \/ Contains
    \/ GetSlot
    \/ GetSlotId
    \/ GetHostSlot

SpecAuth == Init /\ [][NextAuth]_vars

\* ------------------------------------------------------------ slot fields
SlotCopyRich == SlotCopyFrom(RichTemplates)

\* the caller marks the player of slot i as loaded (slots[i].loaded = True)
SetLoaded ==
    /\ Running
    /\ \E i \in SlotIds : slots' = [slots EXCEPT ![i].loaded = TRUE]
    /\ op' = "set_loaded" /\ result' = "ok" /\ ret' = None /\ sent' = <<>>
    /\ UNCHANGED <<in_progress, chat, lobby, host, refs_, cfg, ident>>

\* the caller marks the player of slot i as skipping (slots[i].skipped = True)
SetSkipped ==
    /\ Running
    /\ \E i \in SlotIds : slots' = [slots EXCEPT ![i].skipped = TRUE]
    /\ op' = "set_skipped" /\ result' = "ok" /\ ret' = None /\ sent' = <<>>
    /\ UNCHANGED <<in_progress, chat, lobby, host, refs_, cfg, ident>>

NextSlot ==
    \/ SlotCopyRich
    \/ SlotReset
    \/ SetLoaded
    \/ SetSkipped
    \/ UnreadyPlayers

SpecSlot == Init /\ [][NextSlot]_vars

\* ------------------------------------------------------------- properties
HasPlayerStatus == {not_ready, ready, no_map, playing, complete}

\* the ids of the players in no_map slots of sl, in slot order
NoMapIds(sl) ==
    LET ids == SelectSeq([k \in 1..NumSlots |-> k - 1],
                         LAMBDA i : sl[i].status = no_map)
    IN  [k \in DOMAIN ids |-> sl[ids[k]].player]

\* the positions in sent of the emissions of a kind on a channel
Positions(c, kind) ==
    { k \in DOMAIN sent : sent[k].chan = c /\ sent[k].data.kind = kind }

\* no slot is ever no_map without a player, so the loop of start never
\* raises
NoMapHasPlayer ==
    \A i \in SlotIds : slots[i].status = no_map => slots[i].player # None

\* C1: in every state every slot has a player if and only if its status is
\* one of not_ready, ready, no_map, playing, complete.
C1_Occupancy ==
    \A i \in SlotIds :
        (slots[i].player # None) <=> (slots[i].status \in HasPlayerStatus)

\* C2: a snapshot with the password is enqueued on the match's chat only,
\* and every snapshot enqueued on #lobby is the one without the password.
C2_PasswordOnlyToChat ==
    \A k \in DOMAIN sent :
        sent[k].data.kind = "updateMatch" =>
            (sent[k].data.send_pw <=> sent[k].chan = "chat")

C2_Witness ==
    /\ op = "enqueue_state"
    /\ Len(sent) = 2
    /\ sent[1].chan = "chat" /\ sent[1].data.send_pw
    /\ sent[2].chan = "lobby" /\ ~sent[2].data.send_pw

\* C3: start() sets every not_ready, ready, playing or complete slot to
\* playing, leaves no_map slots no_map and open, locked and quit slots as
\* they were, sets in_progress, and passes as the immune list of the start
\* signal the ids of the players of the no_map slots, in slot order.
C3_StartStep ==
    op' = "start" =>
        /\ \A i \in SlotIds :
              /\ slots[i].status \in {not_ready, ready, playing, complete}
                     => slots'[i].status = playing
              /\ slots[i].status = no_map => slots'[i].status = no_map
              /\ slots[i].status \in {open, locked, quit} => slots'[i] = slots[i]
        /\ in_progress'
        /\ ret' = NoMapIds(slots)
        /\ result' = "ok" =>
              /\ sent'[1].data.kind = "matchStart"
              /\ sent'[1].immune = NoMapIds(slots)

C3_StartTransition == [][C3_StartStep]_vars

C3_Witness ==
    /\ op = "start" /\ result = "ok" /\ in_progress
    /\ slots[0].status = playing /\ slots[0].player # None
    /\ slots[1].status = no_map
    /\ ret = <<slots[1].player>>
    /\ sent[1].immune = ret

\* C4: the start signal and every snapshot start() enqueues are built after
\* the slots are updated and in_progress is set, and on the chat channel the
\* start signal comes before the snapshot.
C4_StartOrdering ==
    (op = "start" /\ result = "ok") =>
        /\ in_progress
        /\ Positions("chat", "matchStart") # {}
        /\ Positions("chat", "updateMatch") # {}
        /\ \A j \in Positions("chat", "matchStart"),
              k \in Positions("chat", "updateMatch") : j < k
        /\ \A k \in DOMAIN sent :
              /\ sent[k].data.in_progress
              /\ \A i \in SlotIds :
                    /\ sent[k].data.statuses[i] = slots[i].status
                    /\ sent[k].data.statuses[i] \in HasPlayerStatus
                           => sent[k].data.statuses[i] \in {no_map, playing}

C4_Witness ==
    /\ op = "start" /\ result = "ok"
    /\ Len(sent) = 4
    /\ \E i \in SlotIds : slots[i].status = playing /\ slots[i].player # None

\* C5: no player of a no_map slot is delivered the start signal of start(),
\* on any channel.
C5_ExemptNeverStarted ==
    op = "start" =>
        \A i \in SlotIds, k \in DOMAIN sent :
            (slots[i].status = no_map /\ sent[k].data.kind = "matchStart")
                => slots[i].player \notin Receivers(sent[k])

\* C6: enqueue and enqueue_state called without a chat channel do not
\* return normally and enqueue nothing.
C6_FatalWithoutChat ==
    (op \in {"enqueue", "enqueue_state"} /\ ~chat.set) =>
        (result \in {"halted", "raised"} /\ sent = <<>>)

C6_Witness ==
    op = "enqueue" /\ ~chat.set /\ result = "halted" /\ sent = <<>>

\* C7: in_progress becomes true only in a start() that completes; a start()
\* that fails for the missing chat channel leaves it false.
C7_InProgressStep ==
    (~in_progress /\ in_progress') => (op' = "start" /\ result' = "ok")

C7_InProgressOnlyByStart == [][C7_InProgressStep]_vars

C9_AuthoritySet ==
    /\ host \in refs
    /\ \A p \in {None} \cup Players : p \in refs <=> (p = host \/ p \in refs_)
    /\ op = "refs" => ret = refs

C9_Witness ==
    op = "remove_ref" /\ host # None /\ ret = host /\ host \in refs

\* C10: get_free returns the lowest index of an open slot, nothing when no
\* slot is open, and changes nothing.
C10_GetFreeStep ==
    op' = "get_free" =>
        /\ UNCHANGED <<slots, in_progress, chat, lobby, host, refs_, cfg, ident>>
        /\ \/ /\ ret' = Absent
              /\ \A i \in SlotIds : slots[i].status # open
           \/ /\ ret' \in SlotIds
              /\ slots[ret'].status = open
              /\ \A j \in SlotIds : j < ret' => slots[j].status # open

C10_GetFreeLowestOpen == [][C10_GetFreeStep]_vars

C10_Witness ==
    op = "get_free" /\ ret = 1 /\ slots[0].status = locked

\* C11: Match.copy(m) gives the match the bmap, freemods, mode, team_type,
\* match_scoring, mods and name of m and leaves its slots, host, referees,
\* id, password, chat, type, in_progress and seed as they were.
C11_CopyStep ==
    op' = "copy" =>
        /\ \E m \in OtherMatches :
              /\ cfg'.bmap = m.cfg.bmap
              /\ cfg'.freemods = m.cfg.freemods
              /\ cfg'.mode = m.cfg.mode
              /\ cfg'.team_type = m.cfg.team_type
              /\ cfg'.match_scoring = m.cfg.match_scoring
              /\ cfg'.mods = m.cfg.mods
              /\ cfg'.name = m.cfg.name
        /\ slots' = slots
        /\ host' = host /\ refs_' = refs_
        /\ ident' = ident
        /\ chat' = chat
        /\ in_progress' = in_progress

C12_UnreadyStep ==
    op' = "unready_players" =>
        /\ \E e \in SlotStatus :
              /\ \A i \in SlotIds :
                    slots'[i] = IF slots[i].status = e
                                THEN [slots[i] EXCEPT !.status = not_ready]
                                ELSE slots[i]
              /\ UnreadySlots(slots', e) = slots'
        /\ UNCHANGED <<in_progress, chat, lobby, host, refs_, cfg, ident>>

C12_Unready == [][C12_UnreadyStep]_vars

C12_Witness ==
    /\ op = "unready_players"
    /\ \E i, j \in SlotIds :
          /\ slots[i].status = not_ready /\ slots[i].team = blue
          /\ slots[i].mods = 1 /\ slots[i].loaded /\ slots[i].player = 1
          /\ slots[j].status \in {no_map, playing}

\* C15: Slot.reset leaves the slot without a player, open, neutral, with no
\* mods, not loaded and not skipped, whatever it was.
C15_ResetStep ==
    op' = "slot_reset" =>
        \E i \in SlotIds :
            slots' = [slots EXCEPT ![i] =
                         [player |-> None, status |-> open, team |-> neutral,
                          mods |-> NOMOD, loaded |-> FALSE, skipped |-> FALSE]]

C15_Reset == [][C15_ResetStep]_vars

C15_Witness ==
    /\ op = "slot_reset"
    /\ \E i, j \in SlotIds :
          /\ slots[i].player = None /\ slots[i].status = open
          /\ ~slots[i].loaded /\ ~slots[i].skipped
          /\ slots[j].loaded /\ slots[j].skipped /\ slots[j].team = blue

\* C20: s.copy(other) gives s the player, status, team and mods of other
\* and leaves loaded and skipped of s as they were.
C20_CopyStep ==
    op' = "slot_copy" =>
        \E i \in SlotIds, t \in RichTemplates :
            slots' = [slots EXCEPT ![i] =
                         [player |-> t.player, status |-> t.status,
                          team |-> t.team, mods |-> t.mods,
                          loaded |-> slots[i].loaded,
                          skipped |-> slots[i].skipped]]

C20_SlotCopyFrame == [][C20_CopyStep]_vars

C20_Witness ==
    /\ op = "slot_copy"
    /\ \E i, j \in SlotIds :
          /\ slots[i].status = ready /\ slots[i].team = blue
          /\ ~slots[i].loaded /\ ~slots[i].skipped
          /\ slots[j].status = no_map /\ slots[j].team = red
          /\ slots[j].loaded /\ slots[j].skipped

\* C13: get_host_slot never raises; it returns the first slot with a
\* has_player status whose player is the host, and nothing when the host
\* has no slot.
C13_HostSlot ==
    op = "get_host_slot" =>
        /\ result = "ok"
        /\ \/ /\ ret = Absent
              /\ \A i \in SlotIds :
                    ~(slots[i].status \in HasPlayerStatus /\ slots[i].player = host)
           \/ /\ ret \in SlotIds
              /\ slots[ret].status \in HasPlayerStatus /\ slots[ret].player = host
              /\ \A j \in SlotIds :
                    j < ret => ~(slots[j].status \in HasPlayerStatus
                                 /\ slots[j].player = host)

\* C16: the host is never None, so None is never in refs.
C16_HostNeverNull ==
    host # None /\ None \notin refs

\* C18: get_slot(p) and get_slot_id(p) return the first slot whose player
\* is p, nothing when there is none, and never raise; they name the same
\* slot, and p in match holds exactly when they find one.
C18_Lookup ==
    /\ op \in {"get_slot", "get_slot_id"} =>
          /\ result = "ok"
          /\ \/ /\ ret[2] = Absent
                /\ \A i \in SlotIds : slots[i].player # ret[1]
             \/ /\ ret[2] \in SlotIds
                /\ slots[ret[2]].player = ret[1]
                /\ \A j \in SlotIds : j < ret[2] => slots[j].player # ret[1]
    /\ op = "contains" =>
          /\ result = "ok"
          /\ ret[2] <=> (\E i \in SlotIds : slots[i].player = ret[1])
    /\ \A p \in Players :
          /\ get_slot(slots, p) = get_slot_id(slots, p)
          /\ contains(slots, p) <=> (get_slot_id(slots, p) # Absent)

C18_Witness ==
    /\ op = "get_slot_id" /\ ret = <<1, 0>>
    /\ slots[0].player = 1 /\ slots[1].player = 1

\* C14: with a chat channel, enqueue(data, lobby, immune) enqueues data
\* once on chat with immune, and once on #lobby, without an immune list,
\* exactly when lobby is true and #lobby has a player.
C14_EnqueueAudiences ==
    (op = "enqueue" /\ chat.set) =>
        /\ result = "ok"
        /\ Len(sent) >= 1
        /\ sent[1] = [chan |-> "chat", data |-> ret.data, immune |-> ret.immune]
        /\ IF ret.lobby /\ lobby.players # {}
           THEN /\ Len(sent) = 2
                /\ sent[2] = [chan |-> "lobby", data |-> ret.data, immune |-> <<>>]
           ELSE Len(sent) = 1

C14_Witness ==
    /\ op = "enqueue" /\ chat.set
    /\ ret.lobby /\ ret.immune # <<>>
    /\ Len(sent) = 2 /\ sent[2].chan = "lobby" /\ sent[2].immune = <<>>

\* C17: start() enqueues the start signal on chat only; on #lobby it
\* enqueues nothing but the snapshot without the password.
C17_StartSignalChatOnly ==
    op = "start" =>
        \A k \in DOMAIN sent :
            sent[k].chan = "lobby" =>
                (sent[k].data.kind = "updateMatch" /\ ~sent[k].data.send_pw)

\* C19: the status of every slot is one of the eight base flags.
C19_SingleFlag ==
    \A i \in SlotIds : slots[i].status \in BaseStatus

C19_Witness ==
    /\ op = "unready_players"
    /\ slots[0].status = not_ready /\ slots[0].player # None
    /\ slots[1].status = playing

====
